---- MODULE Spec2Model ----
(***************************************************************************)
(* Model of the brainfuck interpreter of src/brainfuck.c: the dispatch     *)
(* loop of interpret(), the bracket scan of matchBracket(), the session    *)
(* state they work on (InterpreterState), and the session of main():       *)
(* readFile() / readStdin(), the allocation of the data segment,           *)
(* findPosition() and freeState().                                         *)
(*                                                                         *)
(* Pointers are modelled as offsets: `code` is state->code - codeStart,    *)
(* `data` is state->data - dataStart.  `codeStart` holds the bytes of the  *)
(* instruction buffer before the terminating zero byte.  `dataStart` holds *)
(* the cells of the calloc'ed data segment that are not zero, as a         *)
(* function from their offsets to their values; every other cell of the    *)
(* segment (offsets 0 .. dataSize - 1) holds zero.                         *)
(*                                                                         *)
(* Memory outside the two allocations is not part of the state.  A read    *)
(* outside an allocation (undefined behaviour in C) yields any value: the  *)
(* value is chosen anew at every such read.  A write outside the data      *)
(* segment does not change any cell of the data segment.                   *)
(***************************************************************************)
EXTENDS Integers, Sequences, FiniteSets, TLC

VARIABLES codeStart, code, dataStart, data, dataSize,
          enableBoundsCheck, enableWrapCheck, enableSyntaxCheck,
          error, out, prev,
          pc, text, fileName, enableQuietMode, heap, row, column

vars == <<codeStart, code, dataStart, data, dataSize,
          enableBoundsCheck, enableWrapCheck, enableSyntaxCheck,
          error, out, prev,
          pc, text, fileName, enableQuietMode, heap, row, column>>

(***************************************************************************)
(* Bounds of the model.                                                    *)
(***************************************************************************)
\* longest instruction buffer over all bytes
MaxLen == 2
\* longest instruction buffer over the bytes that leave the data pointer alone
MaxLoopLen == 4
\* longest instruction buffer of brackets only
MaxBracketLen == 6
\* largest data segment size (-d)
MaxDataSize == 2
\* how far the data pointer may walk outside the data segment
MaxOver == 2
\* how many bytes written by '.' are recorded
MaxOut == 3
\* how many bytes written by '.' are recorded in a run of the Hello World
\* buffer
MaxHelloOut == 6
\* longest program text over all bytes that main() reads
MaxTextLen == 3
\* longest program text of newlines, other bytes and '[' that main() reads
MaxPositionLen == 5

(***************************************************************************)
(* Bytes.                                                                  *)
(***************************************************************************)
INT8_MAX == 127
INT8_MIN == -128

\* the terminating zero byte of the instruction buffer
NUL == "NUL"
\* the eight instructions dispatched by the switch of interpret()
Instructions == {">", "<", "+", "-", ".", ",", "[", "]"}
\* a set of allowed characters that lets every other byte through
allowedCharactersAll == {"\n", "x"}

allowedCharacters == {"\n"}
\* the bytes instruction buffers are built from ("x" stands for any byte
\* that is neither an instruction nor an allowed character)
Bytes == Instructions \cup {"\n", "x"}
LoopBytes == {"+", "-", ",", "[", "]", "x"}
BracketBytes == {"[", "]"}
\* what a read of the byte before the instruction buffer may yield
OutsideBytes == {"[", "]", "x", NUL}
\* what getchar() may yield after the cast to int8_t (EOF becomes -1)
InputBytes == {INT8_MIN, -1, 0, 1, INT8_MAX}
\* what a read of a cell outside the data segment may yield
OutsideCells == {INT8_MIN, 0, 1, INT8_MAX}

AllSeqs(S, n) == UNION {[1..k -> S] : k \in 0..n}

\* the instruction buffer
\*   ++++++++[>++++[>++>+++>+++>+<<<<-]>+>+>->>+[<]<-]>>.>---.+++++++..+++.
\* (Hello World, shortened)
Plus(n) == [k \in 1..n |-> "+"]
Minus(n) == [k \in 1..n |-> "-"]
HelloInner == <<"[", ">", "+", "+", ">", "+", "+", "+", ">", "+", "+", "+",
                ">", "+", "<", "<", "<", "<", "-", "]">>
HelloOuter == <<"[", ">">> \o Plus(4) \o HelloInner
                 \o <<">", "+", ">", "+", ">", "-", ">", ">", "+",
                      "[", "<", "]", "<", "-", "]">>
HelloProgram == Plus(8) \o HelloOuter
                  \o <<">", ">", ".", ">">> \o Minus(3) \o <<".">>
                  \o Plus(7) \o <<".", ".">> \o Plus(3) \o <<".">>

\* a conversion that saturates at the ends of the range instead
ToInt8Saturating(n) == IF n > 127 THEN 127 ELSE IF n < -128 THEN -128 ELSE n

\* conversion of an int to int8_t (two's complement, modulo 2^8)
ToInt8(n) == ((n + 128) % 256) - 128

(***************************************************************************)
(* Reading the instruction buffer and the data segment.                    *)
(***************************************************************************)
\* *p for a code pointer at offset pos; `pre` is what the byte before the
\* buffer reads as
ByteAt(pos, pre) ==
    IF pos < 0 THEN pre
    ELSE IF pos >= Len(codeStart) THEN NUL
    ELSE codeStart[pos + 1]

\* *state->code at a dispatch
Cur == ByteAt(code, NUL)

InSegment == data \in 0..(dataSize - 1)

\* the data segment as calloc returns it: every cell is zero
Zeroed == [k \in {} |-> 0]

\* cells[k] for an offset k of the data segment
CellAt(cells, k) == IF k \in DOMAIN cells THEN cells[k] ELSE 0

\* the values *state->data may read as
CellValues == IF InSegment THEN {CellAt(dataStart, data)} ELSE OutsideCells

\* a store that always goes to the first cell of the data segment
StoreFirst(v) ==
    [k \in (DOMAIN dataStart \ {0}) \cup (IF v = 0 THEN {} ELSE {0}) |->
        IF k = 0 THEN v ELSE dataStart[k]]

\* the data segment after *state->data = v
Store(v) ==
    IF InSegment
    THEN [k \in (DOMAIN dataStart \ {data}) \cup (IF v = 0 THEN {} ELSE {data}) |->
             IF k = data THEN v ELSE dataStart[k]]
    ELSE dataStart

Running == error = "RUNNING"

(***************************************************************************)
(* matchBracket(): move the code pointer to the corresponding bracket.     *)
(***************************************************************************)
\* (*state->code == '[') - (*state->code == ']')
Delta(b) == IF b = "[" THEN 1 ELSE IF b = "]" THEN -1 ELSE 0

\* the step of the scan with the two directions exchanged
StepSwapped(forward) == IF forward THEN -1 ELSE 1

\* state->code += (forward ? 1 : -1)
Step(forward) == IF forward THEN 1 ELSE -1

\* The for loop, entered at its condition with the code pointer at offset
\* pos and the counter i of the previous iterations.  The condition adds
\* the byte under the code pointer to i and leaves the loop when i is 0;
\* the body gives up when the pointer is before the buffer or on the zero
\* byte; the step moves the pointer.  The result tells whether the loop was
\* left by its condition and where the code pointer was then.
RECURSIVE Scan(_, _, _, _)
Scan(pos, i, forward, pre) ==
    LET b == ByteAt(pos, pre)
        j == i + Delta(b)
    IN  IF j = 0 THEN [found |-> TRUE, code |-> pos]
        ELSE IF pos < 0 \/ b = NUL THEN [found |-> FALSE, code |-> pos]
        ELSE Scan(pos + Step(forward), j, forward, pre)

\* matchBracket() without the restore of the code pointer
matchBracketNoRestore(forward, pre) == Scan(code, 0, forward, pre)

\* the result of the call and the code pointer it leaves: the body of the
\* loop restores the pointer to codeCurrent before it returns false
matchBracket(forward, pre) ==
    LET codeCurrent == code
        s == Scan(code, 0, forward, pre)
    IN  IF s.found THEN s ELSE [found |-> FALSE, code |-> codeCurrent]

(***************************************************************************)
(* interpret(): one action per case of the switch, each including the      *)
(* ++state->code that follows the switch, and one for the loop exit.       *)
(***************************************************************************)
Config == <<codeStart, dataSize, enableBoundsCheck, enableWrapCheck, enableSyntaxCheck>>

\* what belongs to main() and the functions it calls around interpret():
\* where main() is (pc), the program text in the file or on stdin, whether
\* -f was given, -q, the state of the two heap blocks, and the row and
\* column of main()
Main == <<pc, text, fileName, enableQuietMode, heap, row, column>>

\* the instruction just completed and the state it was dispatched in
Completed == [op |-> Cur, data |-> data, dataStart |-> dataStart]
NoPrev == [op |-> NUL, data |-> 0, dataStart |-> Zeroed]

\* return of an error code from inside the switch
Fail(e) ==
    /\ error' = e
    /\ UNCHANGED <<Config, Main, code, dataStart, data, out, prev>>

\* return of an error code after a call of matchBracket(), which left the
\* code pointer at offset c
FailAt(e, c) ==
    /\ error' = e
    /\ code' = c
    /\ UNCHANGED <<Config, Main, dataStart, data, out, prev>>

\* how many of the bytes written are recorded
OutLimit == IF codeStart = HelloProgram THEN MaxHelloOut ELSE MaxOut

\* a putchar that writes nothing
PutNothing(v) == out

\* putchar: the first OutLimit bytes written are recorded
Put(v) == IF Len(out) < OutLimit THEN Append(out, v) ELSE out

IncPtr ==
    /\ Running /\ Cur = ">"
    /\ IF enableBoundsCheck /\ data = dataSize
       THEN Fail("E_INDEX_ABOVE")
       ELSE /\ data < dataSize - 1 + MaxOver
            /\ data' = data + 1
            /\ code' = code + 1
            /\ prev' = Completed
            /\ UNCHANGED <<Config, Main, dataStart, out, error>>

DecPtr ==
    /\ Running /\ Cur = "<"
    /\ IF enableBoundsCheck /\ data = 0
       THEN Fail("E_INDEX_BELOW")
       ELSE /\ data > -MaxOver
            /\ data' = data - 1
            /\ code' = code + 1
            /\ prev' = Completed
            /\ UNCHANGED <<Config, Main, dataStart, out, error>>

\* '+' with the wrap check made on the incremented value
IncCellCheckAfter ==
    /\ Running /\ Cur = "+"
    /\ \E v \in CellValues :
          IF enableWrapCheck /\ ToInt8(v + 1) = INT8_MAX
          THEN Fail("E_WRAP_OVER")
          ELSE /\ dataStart' = Store(ToInt8(v + 1))
               /\ code' = code + 1
               /\ prev' = Completed
               /\ UNCHANGED <<Config, Main, data, out, error>>

IncCell ==
    /\ Running /\ Cur = "+"
    /\ \E v \in CellValues :
          IF enableWrapCheck /\ v = INT8_MAX
          THEN Fail("E_WRAP_OVER")
          ELSE /\ dataStart' = Store(ToInt8(v + 1))
               /\ code' = code + 1
               /\ prev' = Completed
               /\ UNCHANGED <<Config, Main, data, out, error>>

\* '-' with the wrap check made whether or not it is enabled
DecCellAlwaysChecked ==
    /\ Running /\ Cur = "-"
    /\ \E v \in CellValues :
          IF v = INT8_MIN
          THEN Fail("E_WRAP_UNDER")
          ELSE /\ dataStart' = Store(ToInt8(v - 1))
               /\ code' = code + 1
               /\ prev' = Completed
               /\ UNCHANGED <<Config, Main, data, out, error>>

DecCell ==
    /\ Running /\ Cur = "-"
    /\ \E v \in CellValues :
          IF enableWrapCheck /\ v = INT8_MIN
          THEN Fail("E_WRAP_UNDER")
          ELSE /\ dataStart' = Store(ToInt8(v - 1))
               /\ code' = code + 1
               /\ prev' = Completed
               /\ UNCHANGED <<Config, Main, data, out, error>>

\* '[' that looks for the closing bracket whatever the cell holds
OpenBracketAlwaysScan ==
    /\ Running /\ Cur = "["
    /\ \E pre \in OutsideBytes :
          LET m == matchBracket(TRUE, pre)
          IN  IF ~m.found
              THEN FailAt("E_OPEN_BRACKET", m.code)
              ELSE /\ code' = m.code + 1
                   /\ prev' = Completed
                   /\ UNCHANGED <<Config, Main, dataStart, data, out, error>>

OpenBracket ==
    /\ Running /\ Cur = "["
    /\ \E v \in CellValues, pre \in OutsideBytes :
          LET m == matchBracket(TRUE, pre)
          IN  IF v = 0 /\ ~m.found
              THEN FailAt("E_OPEN_BRACKET", m.code)
              ELSE /\ code' = (IF v = 0 THEN m.code ELSE code) + 1
                   /\ prev' = Completed
                   /\ UNCHANGED <<Config, Main, dataStart, data, out, error>>

\* ']' that jumps back when the cell is zero
CloseBracketOnZero ==
    /\ Running /\ Cur = "]"
    /\ \E v \in CellValues, pre \in OutsideBytes :
          LET m == matchBracket(FALSE, pre)
          IN  IF v = 0 /\ ~m.found
              THEN FailAt("E_CLOSE_BRACKET", m.code)
              ELSE /\ code' = (IF v = 0 THEN m.code ELSE code) + 1
                   /\ prev' = Completed
                   /\ UNCHANGED <<Config, Main, dataStart, data, out, error>>

CloseBracket ==
    /\ Running /\ Cur = "]"
    /\ \E v \in CellValues, pre \in OutsideBytes :
          LET m == matchBracket(FALSE, pre)
          IN  IF v # 0 /\ ~m.found
              THEN FailAt("E_CLOSE_BRACKET", m.code)
              ELSE /\ code' = (IF v # 0 THEN m.code ELSE code) + 1
                   /\ prev' = Completed
                   /\ UNCHANGED <<Config, Main, dataStart, data, out, error>>

\* ',' without the ++state->code after the switch
InputStays ==
    /\ Running /\ Cur = ","
    /\ \E c \in InputBytes :
          /\ dataStart' = Store(c)
          /\ prev' = Completed
          /\ UNCHANGED <<Config, Main, code, data, out, error>>

Input ==
    /\ Running /\ Cur = ","
    /\ \E c \in InputBytes :
          /\ dataStart' = Store(c)
          /\ code' = code + 1
          /\ prev' = Completed
          /\ UNCHANGED <<Config, Main, data, out, error>>

Output ==
    /\ Running /\ Cur = "."
    /\ \E v \in CellValues :
          /\ out' = Put(v)
          /\ code' = code + 1
          /\ prev' = Completed
          /\ UNCHANGED <<Config, Main, dataStart, data, error>>

\* the default case without the syntax check
OtherUnchecked ==
    /\ Running /\ Cur \notin Instructions /\ Cur # NUL
    /\ code' = code + 1
    /\ prev' = Completed
    /\ UNCHANGED <<Config, Main, dataStart, data, out, error>>

Other ==
    /\ Running /\ Cur \notin Instructions /\ Cur # NUL
    /\ IF enableSyntaxCheck /\ Cur \notin allowedCharacters
       THEN Fail("E_SYNTAX")
       ELSE /\ code' = code + 1
            /\ prev' = Completed
            /\ UNCHANGED <<Config, Main, dataStart, data, out, error>>

\* the while condition finds the zero byte
Return ==
    /\ Running /\ Cur = NUL
    /\ error' = "E_NONE"
    /\ UNCHANGED <<Config, Main, code, dataStart, data, out, prev>>

Next ==
    \/ IncPtr
    \/ DecPtr
    \/ IncCell
    \/ DecCell
    \/ OpenBracket
    \/ CloseBracket
    \/ Input
    \/ Output
    \/ Other
    \/ Return

(***************************************************************************)
(* The state at the call of interpret() in main(): the code has been read, *)
(* the data segment has been calloc'ed, both pointers are at the start.    *)
(***************************************************************************)
Start(programs, sizes, boundsChecks) ==
    /\ codeStart \in programs
    /\ dataSize \in sizes
    /\ enableBoundsCheck \in boundsChecks
    /\ enableWrapCheck \in BOOLEAN
    /\ enableSyntaxCheck \in BOOLEAN
    /\ code = 0
    /\ data = 0
    /\ dataStart = Zeroed
    /\ error = "RUNNING"
    /\ out = <<>>
    /\ prev = NoPrev
    /\ pc = "interpret"
    /\ text = Append(codeStart, "\n")
    /\ fileName = TRUE
    /\ enableQuietMode = FALSE
    /\ heap = [code |-> "live", data |-> "live"]
    /\ row = 0
    /\ column = 0

Init == Start(AllSeqs(Bytes, MaxLen), 1..MaxDataSize, BOOLEAN)

Spec == Init /\ [][Next]_vars

\* programs in which no ']' follows another byte; the run is not
\* interrupted: interpret() is the only thread of the process, so a
\* dispatch that is enabled is eventually made
StraightBytes == Bytes \ {"]"}

StraightInit == Start(AllSeqs(StraightBytes, MaxLen) \cup AllSeqs(Bytes, 1), 1..MaxDataSize, BOOLEAN)

StraightSpec == StraightInit /\ [][Next]_vars /\ WF_vars(Next)

\* longer programs of loops and cell arithmetic on the first cell, which
\* the size of the data segment and the bounds check do not affect
LoopInit == Start(AllSeqs(LoopBytes, MaxLoopLen) \cup AllSeqs(Bytes, 1), {1}, {FALSE})

LoopSpec == LoopInit /\ [][Next]_vars

\* programs of brackets only; interpret() runs without interruption, so a
\* step that is enabled is eventually taken
BracketInit == Start(AllSeqs(BracketBytes, MaxBracketLen) \cup AllSeqs(Bytes, 1), 1..MaxDataSize, BOOLEAN)

BracketSpec == BracketInit /\ [][Next]_vars /\ WF_vars(Next)

\* -d when it is not given (DEFAULT_DATA_SIZE)
DEFAULT_DATA_SIZE == 30000

\* the Hello World buffer on a data segment of the default size, and the
\* buffers of one byte; the run is not interrupted
HelloInit == Start({HelloProgram} \cup AllSeqs(Bytes, 1), {DEFAULT_DATA_SIZE}, {FALSE})

HelloSpec == HelloInit /\ [][Next]_vars /\ WF_vars(Next)

(***************************************************************************)
(* main() around interpret(): reading the code, allocating the data        *)
(* segment, reporting an error and freeing.  A heap block is "none" (never *)
(* allocated), "live", "lost" (live, but the pointer to it was overwritten *)
(* with NULL), "freed" or "freed twice".                                   *)
(***************************************************************************)
\* what interpret() works on
Engine == <<code, dataStart, data, out, prev>>
Flags == <<dataSize, enableBoundsCheck, enableWrapCheck, enableSyntaxCheck,
           enableQuietMode, fileName, text>>

\* state->code[length-1] = 0: the zero byte is written over the last byte
\* read, the bytes before it stay
Terminate(bytes) == SubSeq(bytes, 1, Len(bytes) - 1)

\* free(p) for the pointer to a block in state b; free(NULL) does nothing
Free(b) ==
    IF b = "live" THEN "freed"
    ELSE IF b = "freed" THEN "freed twice"
    ELSE b

freeState(h) == [code |-> Free(h.code), data |-> Free(h.data)]

\* the for loop of findPosition() at index i with the column x and the row
\* y, for the code pointer at offset n
RECURSIVE PositionLoop(_, _, _, _)
PositionLoop(i, x, y, n) ==
    IF i >= n THEN [row |-> y, column |-> x]
    ELSE IF codeStart[i + 1] = "\n"
         THEN PositionLoop(i + 1, 1, y + 1, n)
         ELSE PositionLoop(i + 1, x + 1, y, n)

\* findPosition() with the column counted from 0
findPositionFromZero(n) == PositionLoop(0, 0, 1, n)

\* the row and column findPosition() stores for the code pointer at offset n
findPosition(n) == PositionLoop(0, 1, 1, n)

\* readFile(): fopen may fail, malloc may fail; an empty file leaves
\* state->code NULL
ReadFile ==
    /\ pc = "read" /\ fileName
    /\ \E opened \in BOOLEAN, allocated \in BOOLEAN :
          /\ IF ~opened THEN error' = "E_FILE" /\ UNCHANGED <<codeStart, heap>>
             ELSE IF Len(text) = 0 THEN error' = "E_NONE" /\ UNCHANGED <<codeStart, heap>>
             ELSE IF ~allocated THEN error' = "E_MEMORY" /\ UNCHANGED <<codeStart, heap>>
             ELSE /\ codeStart' = Terminate(text)
                  /\ heap' = [heap EXCEPT !.code = "live"]
                  /\ error' = "E_NONE"
          /\ pc' = "loaded"
    /\ UNCHANGED <<Engine, Flags, row, column>>

\* readStdin(): one turn of the while loop, getchar() yielding the next
\* byte of the text.  realloc moves the bytes read so far to the new block,
\* or fails: then state->code and state->codeStart become NULL while the
\* old block stays allocated.
ReadStdinChar ==
    /\ pc = "read" /\ ~fileName
    /\ Len(codeStart) < Len(text)
    /\ \E allocated \in BOOLEAN :
          IF allocated
          THEN /\ codeStart' = Append(codeStart, text[Len(codeStart) + 1])
               /\ heap' = [heap EXCEPT !.code = "live"]
               /\ UNCHANGED <<error, pc>>
          ELSE /\ codeStart' = <<>>
               /\ heap' = [heap EXCEPT !.code = IF @ = "live" THEN "lost" ELSE @]
               /\ error' = "E_MEMORY"
               /\ pc' = "loaded"
    /\ UNCHANGED <<Engine, Flags, row, column>>

\* readStdin(): getchar() yields EOF
ReadStdinEnd ==
    /\ pc = "read" /\ ~fileName
    /\ Len(codeStart) = Len(text)
    /\ codeStart' = IF Len(codeStart) > 0 THEN Terminate(codeStart) ELSE codeStart
    /\ error' = "E_NONE"
    /\ pc' = "loaded"
    /\ UNCHANGED <<Engine, Flags, heap, row, column>>

\* main(): the code was not read
LoadFailed ==
    /\ pc = "loaded" /\ error # "E_NONE"
    /\ pc' = "EXIT_FAILURE"
    /\ UNCHANGED <<codeStart, Engine, Flags, error, heap, row, column>>

\* main(): state.code is NULL
NoCode ==
    /\ pc = "loaded" /\ error = "E_NONE" /\ heap.code # "live"
    /\ pc' = "EXIT_FAILURE"
    /\ UNCHANGED <<codeStart, Engine, Flags, error, heap, row, column>>

\* main(): calloc fails
CallocFailed ==
    /\ pc = "loaded" /\ error = "E_NONE" /\ heap.code = "live"
    /\ heap' = freeState(heap)
    /\ pc' = "EXIT_FAILURE"
    /\ UNCHANGED <<codeStart, Engine, Flags, error, row, column>>

\* main(): the data segment is allocated, zeroed, and interpret() is called
CallInterpret ==
    /\ pc = "loaded" /\ error = "E_NONE" /\ heap.code = "live"
    /\ dataStart' = Zeroed
    /\ heap' = [heap EXCEPT !.data = "live"]
    /\ error' = "RUNNING"
    /\ pc' = "interpret"
    /\ UNCHANGED <<codeStart, code, data, out, prev, Flags, row, column>>

\* main(): interpret() returned an error
ReportError ==
    /\ pc = "interpret" /\ error \notin {"RUNNING", "E_NONE"}
    /\ IF enableQuietMode
       THEN UNCHANGED <<row, column>>
       ELSE /\ row' = findPosition(code).row
            /\ column' = findPosition(code).column
    /\ heap' = freeState(heap)
    /\ pc' = "EXIT_FAILURE"
    /\ UNCHANGED <<codeStart, Engine, Flags, error>>

\* main(): interpret() returned E_NONE
Finish ==
    /\ pc = "interpret" /\ error = "E_NONE"
    /\ heap' = freeState(heap)
    /\ pc' = "EXIT_SUCCESS"
    /\ UNCHANGED <<codeStart, Engine, Flags, error, row, column>>

MainNext ==
    \/ ReadFile
    \/ ReadStdinChar
    \/ ReadStdinEnd
    \/ LoadFailed
    \/ NoCode
    \/ CallocFailed
    \/ CallInterpret
    \/ IncPtr
    \/ DecPtr
    \/ IncCell
    \/ DecCell
    \/ OpenBracket
    \/ CloseBracket
    \/ Input
    \/ Output
    \/ Other
    \/ Return
    \/ ReportError
    \/ Finish

\* the bytes of the texts that are read for their rows and columns
PositionBytes == {"\n", "x", "["}

\* the state of main() after initState(), with the default data size
\* replaced by a small one (-d) and no check enabled
MainInit ==
    /\ text \in AllSeqs(Bytes, MaxTextLen) \cup AllSeqs(PositionBytes, MaxPositionLen)
    /\ fileName \in BOOLEAN
    /\ enableQuietMode \in BOOLEAN
    /\ dataSize = 1
    /\ enableBoundsCheck = FALSE
    /\ enableWrapCheck = FALSE
    /\ enableSyntaxCheck = FALSE
    /\ codeStart = <<>>
    /\ code = 0
    /\ dataStart = Zeroed
    /\ data = 0
    /\ error = "UNSET"
    /\ out = <<>>
    /\ prev = NoPrev
    /\ pc = "read"
    /\ heap = [code |-> "none", data |-> "none"]
    /\ row = 0
    /\ column = 0

MainSpec == MainInit /\ [][MainNext]_vars

(***************************************************************************)
(* Properties of the data pointer, the cells and the error returns.        *)
(***************************************************************************)
\* the codes interpret() returns for a failed check
InterpretErrors ==
    {"E_INDEX_ABOVE", "E_INDEX_BELOW", "E_WRAP_OVER", "E_WRAP_UNDER",
     "E_OPEN_BRACKET", "E_CLOSE_BRACKET", "E_SYNTAX"}

\* C1: with bounds checking enabled the data pointer stays inside the data
\* segment, 0 <= data < dataSize, in every reachable state.
C1_DataPointerInSegment == enableBoundsCheck => InSegment

\* the instruction buffer is dataSize times '>'
OnlyIncPtr == Len(codeStart) = dataSize /\ \A k \in 1..Len(codeStart) : codeStart[k] = ">"

\* C2: with bounds checking enabled, in the program of dataSize consecutive
\* '>' the last '>' (offset dataSize - 1, data pointer dataSize - 1) fails
\* with E_INDEX_ABOVE and every earlier '>' increments the data pointer.
C2_IndexAboveAtLast ==
    [][(enableBoundsCheck /\ OnlyIncPtr /\ Running /\ code < dataSize) =>
          IF code = dataSize - 1
          THEN data = dataSize - 1 /\ error' = "E_INDEX_ABOVE" /\ code' = code
          ELSE error' = "RUNNING" /\ data' = data + 1]_vars

\* C3: with wrap checking enabled, '+' on a cell holding 127 fails with
\* E_WRAP_OVER and '-' on a cell holding -128 fails with E_WRAP_UNDER, the
\* cell keeping its value; on any other value the instruction succeeds and
\* changes the cell by exactly one, without wrapping.
C3_WrapCheck ==
    [][(enableWrapCheck /\ Running /\ InSegment /\ Cur \in {"+", "-"}) =>
          LET v == CellAt(dataStart, data)
              up == Cur = "+"
          IN  IF v = (IF up THEN 127 ELSE -128)
              THEN /\ error' = (IF up THEN "E_WRAP_OVER" ELSE "E_WRAP_UNDER")
                   /\ dataStart' = dataStart
              ELSE /\ error' = "RUNNING"
                   /\ CellAt(dataStart', data) = (IF up THEN v + 1 ELSE v - 1)
                   /\ CellAt(dataStart', data) \in -128..127]_vars

\* a '+' on a cell holding 127 has failed and the cell still holds 127
C3_Witness ==
    /\ error = "E_WRAP_OVER" /\ enableWrapCheck
    /\ InSegment /\ CellAt(dataStart, data) = 127 /\ Cur = "+"

\* the instruction an error code is returned for
Trigger(e) ==
    CASE e = "E_INDEX_ABOVE" -> {">"}
      [] e = "E_INDEX_BELOW" -> {"<"}
      [] e = "E_WRAP_OVER" -> {"+"}
      [] e = "E_WRAP_UNDER" -> {"-"}
      [] e = "E_OPEN_BRACKET" -> {"["}
      [] e = "E_CLOSE_BRACKET" -> {"]"}
      [] e = "E_SYNTAX" -> Bytes \ (Instructions \cup {"\n"})
      [] OTHER -> {}

\* C4: a step that returns an error leaves the code pointer on the failing
\* instruction and the data pointer, the cells and the output as they were
\* when the instruction was dispatched, and nothing runs after interpret()
\* has returned.
C4_ErrorKeepsState ==
    [][/\ ~Running => UNCHANGED vars
       /\ (Running /\ error' \notin {"RUNNING", "E_NONE"}) =>
             /\ error' \in InterpretErrors
             /\ Cur \in Trigger(error')
             /\ code' = code
             /\ data' = data
             /\ dataStart' = dataStart
             /\ out' = out]_vars

\* a forward scan has run to the zero byte and failed: the code pointer is
\* back on the '[' that started it
C4_Witness ==
    /\ error = "E_OPEN_BRACKET"
    /\ Cur = "["
    /\ code + 1 < Len(codeStart)

(***************************************************************************)
(* Properties of the brackets.  The reference is the pairing a single pass *)
(* with a stack assigns: '[' is pushed, ']' is paired with the '[' popped, *)
(* a ']' that finds the stack empty and a '[' left on the stack at the end *)
(* have no partner.                                                        *)
(***************************************************************************)
RECURSIVE Pairs(_, _, _)
Pairs(pos, stack, table) ==
    IF pos >= Len(codeStart) THEN table
    ELSE LET b == codeStart[pos + 1]
         IN  IF b = "[" THEN Pairs(pos + 1, <<pos>> \o stack, table)
             ELSE IF b = "]" /\ stack # <<>>
                  THEN Pairs(pos + 1, Tail(stack), table \cup {<<Head(stack), pos>>})
                  ELSE Pairs(pos + 1, stack, table)

\* the pairs <<offset of '[', offset of ']'>> of the instruction buffer
JumpTable == Pairs(0, <<>>, {})

Paired(p) == \E pr \in JumpTable : pr[1] = p \/ pr[2] = p

\* the offset of the partner of the bracket at offset p
Partner(p) ==
    LET pr == CHOOSE x \in JumpTable : x[1] = p \/ x[2] = p
    IN  IF pr[1] = p THEN pr[2] ELSE pr[1]

\* C5: whenever a '[' is dispatched on a zero cell or a ']' on a nonzero
\* cell, execution continues right after the partner the stack pairing
\* gives the bracket, and fails with the bracket's mismatch error, the code
\* pointer on the bracket, exactly when the pairing gives it no partner.
C5_MatchesJumpTable ==
    [][(/\ Running /\ InSegment
        /\ \/ Cur = "[" /\ CellAt(dataStart, data) = 0
           \/ Cur = "]" /\ CellAt(dataStart, data) # 0) =>
          IF Paired(code)
          THEN error' = "RUNNING" /\ code' = Partner(code) + 1
          ELSE /\ error' = (IF Cur = "[" THEN "E_OPEN_BRACKET" ELSE "E_CLOSE_BRACKET")
               /\ code' = code]_vars

\* C6: a '[' without partner fails with E_OPEN_BRACKET, the code pointer
\* staying on it, when it is dispatched on a zero cell, and falls through
\* to the next instruction when it is dispatched on a nonzero cell; and
\* E_OPEN_BRACKET is returned in no other case.
C6_UnmatchedOpen ==
    [][(Running /\ InSegment) =>
          /\ (Cur = "[" /\ ~Paired(code)) =>
                IF CellAt(dataStart, data) = 0
                THEN error' = "E_OPEN_BRACKET" /\ code' = code
                ELSE error' = "RUNNING" /\ code' = code + 1
          /\ error' = "E_OPEN_BRACKET" =>
                Cur = "[" /\ ~Paired(code) /\ CellAt(dataStart, data) = 0 /\ code' = code]_vars

\* a '[' without partner, after the start of the buffer and before a pair
\* of brackets, was dispatched on a zero cell and failed
C6_Witness ==
    /\ error = "E_OPEN_BRACKET"
    /\ code >= 1 /\ Cur = "[" /\ ~Paired(code)
    /\ InSegment /\ CellAt(dataStart, data) = 0
    /\ \E pr \in JumpTable : pr[1] > code

\* the depth of brackets after the first n bytes
RECURSIVE Depth(_)
Depth(n) == IF n = 0 THEN 0 ELSE Depth(n - 1) + Delta(codeStart[n])

\* the instruction buffer holds brackets only, properly nested
BalancedBrackets ==
    /\ \A k \in 1..Len(codeStart) : codeStart[k] \in {"[", "]"} /\ Depth(k) >= 0
    /\ Depth(Len(codeStart)) = 0

\* C7: a program of properly nested brackets only, run with bounds checking
\* disabled, ends in success, and the data pointer stays 0, the cells stay
\* 0 and nothing is written on the way.
C7_BalancedBracketsNoOp ==
    /\ []((BalancedBrackets /\ ~enableBoundsCheck) =>
             /\ error \in {"RUNNING", "E_NONE"}
             /\ data = 0
             /\ \A k \in 0..(dataSize - 1) : CellAt(dataStart, k) = 0
             /\ out = <<>>)
    /\ (BalancedBrackets /\ ~enableBoundsCheck) ~> (error = "E_NONE")

\* a program of nested brackets has ended in success
C7_Witness ==
    /\ BalancedBrackets /\ ~enableBoundsCheck
    /\ Len(codeStart) >= 4 /\ codeStart[2] = "["
    /\ error = "E_NONE"

\* C8: with wrap checking disabled '+' and '-' always succeed, and a '-'
\* dispatched right after a '+' on the same cell leaves the cell as it was
\* before the '+', whatever it held.
C8_IncThenDec ==
    [][(~enableWrapCheck /\ Running /\ InSegment /\ Cur \in {"+", "-"}) =>
          /\ error' = "RUNNING"
          /\ (Cur = "-" /\ prev.op = "+" /\ prev.data = data) =>
                CellAt(dataStart', data) = CellAt(prev.dataStart, data)]_vars

\* '+' and then '-' have run on a cell that held 127
C8_Witness ==
    /\ ~enableWrapCheck /\ InSegment
    /\ code >= 2 /\ codeStart[code] = "-" /\ codeStart[code - 1] = "+"
    /\ prev.op = "-" /\ prev.data = data
    /\ CellAt(prev.dataStart, data) = -128
    /\ CellAt(dataStart, data) = 127

\* C9: a byte that is no instruction fails with E_SYNTAX when syntax
\* checking is enabled and the byte is not newline; otherwise it only
\* advances the code pointer by one.
C9_OtherBytes ==
    [][(Running /\ Cur \notin Instructions /\ Cur # NUL) =>
          IF enableSyntaxCheck /\ Cur # "\n"
          THEN error' = "E_SYNTAX" /\ code' = code
          ELSE /\ error' = "RUNNING"
               /\ code' = code + 1
               /\ UNCHANGED <<Config, dataStart, data, out>>]_vars

\* with syntax checking enabled a newline was passed over and the byte
\* after it was rejected
C9_Witness ==
    /\ enableSyntaxCheck /\ error = "E_SYNTAX"
    /\ code = 1 /\ codeStart[1] = "\n" /\ Cur = "x"

\* the offsets of the bytes that are neither instructions nor newline
BadOffsets == {p \in 0..(Len(codeStart) - 1) : codeStart[p + 1] \notin Instructions \cup {"\n"}}

Newlines(n) == {i \in 1..n : codeStart[i] = "\n"}

\* one more than the number of newlines before offset n
RowOf(n) == Cardinality(Newlines(n)) + 1

\* one more than the number of bytes before offset n that come after the
\* last newline before offset n, or after the start of the buffer
ColumnOf(n) ==
    LET last == IF Newlines(n) = {} THEN 0
                ELSE CHOOSE i \in Newlines(n) : \A j \in Newlines(n) : j <= i
    IN  (n - last) + 1

\* C11: for every offset n of the buffer findPosition() gives the row
\* RowOf(n) and the column ColumnOf(n); the row and column main() reports
\* are those of the code pointer, and reporting changes neither the code
\* pointer, the data pointer nor the cells.
C11_FindPosition ==
    /\ [](\A n \in 0..Len(codeStart) :
             findPosition(n) = [row |-> RowOf(n), column |-> ColumnOf(n)])
    /\ []((pc = "EXIT_FAILURE" /\ row # 0) =>
             row = RowOf(code) /\ column = ColumnOf(code))
    /\ [][(pc = "interpret" /\ pc' = "EXIT_FAILURE") =>
             UNCHANGED <<codeStart, code, data, dataStart>>]_vars

\* an error on the second byte of the third line has been reported
C11_Witness ==
    /\ pc = "EXIT_FAILURE" /\ ~enableQuietMode
    /\ code = 3 /\ codeStart[1] = "\n" /\ codeStart[2] = "\n"
    /\ row = 3 /\ column = 2


(***************************************************************************)
(* C12: the code pointer stays inside the instruction buffer.              *)
(***************************************************************************)
\* the offsets of the instruction buffer, the zero byte included
BufferOffsets == 0..Len(codeStart)

\* the offset at which the loop of matchBracket() is left, whatever the
\* byte before the buffer reads as: every offset from the start of the scan
\* to this one has been read by the loop condition
ScanEnds(forward) == {Scan(code, 0, forward, pre).code : pre \in OutsideBytes}

\* C12: in every state the code pointer is at an offset of the buffer
\* (0 .. offset of the zero byte), and a bracket scan that starts in this
\* state, forward from a '[' on a zero cell or backward from a ']' on a
\* nonzero cell, reads the buffer only at such offsets: it never reads the
\* byte at offset -1 and never goes past the zero byte.
C12_CodePointerInBuffer ==
    /\ code \in BufferOffsets
    /\ (Running /\ Cur = "[" /\ 0 \in CellValues)
          => ScanEnds(TRUE) \subseteq BufferOffsets
    /\ (Running /\ Cur = "]" /\ CellValues # {0})
          => ScanEnds(FALSE) \subseteq BufferOffsets


(***************************************************************************)
(* C13: the instruction buffer after the program text has been read.       *)
(***************************************************************************)
\* main() has read a program text that is not empty without an error
Loaded == pc = "loaded" /\ error = "E_NONE" /\ text # <<>>

\* C13: after a non-empty program text has been read (by readFile or by
\* readStdin) the instruction buffer holds every byte of the text, in
\* order, before its zero byte: the zero byte is appended, no byte of the
\* text is dropped or overwritten.
C13_BufferHoldsText == Loaded => codeStart = text


(***************************************************************************)
(* C14: the heap blocks when main() returns.                               *)
(***************************************************************************)
Returned == pc \in {"EXIT_SUCCESS", "EXIT_FAILURE"}

\* C14: when main() has returned, on any path, each of the two heap blocks
\* (the instruction buffer and the data segment) either was never allocated
\* or has been freed exactly once: none is still allocated, none has been
\* lost (as after a failed realloc) and none has been freed twice.
C14_BlocksReleasedOnce ==
    Returned => heap.code \in {"none", "freed"} /\ heap.data \in {"none", "freed"}


(***************************************************************************)
(* C15: the Hello World buffer under the default configuration.            *)
(***************************************************************************)
\* "Hello World!\n" as the values putchar is given
HelloWorldText == <<72, 101, 108, 108, 111, 32, 87, 111, 114, 108, 100, 33, 10>>

IsPrefix(s, t) == Len(s) <= Len(t) /\ SubSeq(t, 1, Len(s)) = s

\* a run of the Hello World buffer with no check enabled
HelloRun ==
    /\ codeStart = HelloProgram
    /\ dataSize = DEFAULT_DATA_SIZE
    /\ ~enableBoundsCheck /\ ~enableWrapCheck /\ ~enableSyntaxCheck

\* every byte written has been recorded, and they are a leading part of
\* "Hello World!\n"
HelloSoFar == Len(out) < MaxHelloOut /\ IsPrefix(out, HelloWorldText)

\* C15: a run of the Hello World buffer with no check enabled, a data
\* segment of 30000 zero cells: the data pointer stays in 0..29999, no
\* error is returned, the bytes written are at every moment a leading part
\* of "Hello World!\n", and the run ends in success having written a
\* leading part of that text that begins with "Hello".
C15_HelloWorld ==
    /\ [](HelloRun => InSegment /\ error \in {"RUNNING", "E_NONE"} /\ HelloSoFar)
    /\ [](HelloRun => <>(error = "E_NONE" /\ HelloSoFar /\ Len(out) >= 5))

C15_Witness ==
    /\ HelloRun
    /\ error = "E_NONE"
    /\ code = Len(HelloProgram)
    /\ out = <<72, 101, 108, 108, 111>>
    /\ CellAt(dataStart, 6) # 0


(***************************************************************************)
(* C16: the three outcomes of a ']'.                                       *)
(***************************************************************************)
\* the offsets p of the '[' that the stack pairing matches with the ']' at
\* offset q (none or one)
OpenersOf(q) == {pr[1] : pr \in {x \in JumpTable : x[2] = q}}

\* C16: a ']' dispatched at offset q falls through to q + 1 when the cell
\* under the data pointer is 0; resumes at p + 1 when the cell is not 0 and
\* the '[' at offset p < q matches it; and fails with E_CLOSE_BRACKET, the
\* code pointer staying at q, when the cell is not 0 and no '[' before q
\* matches it (q = 0 included).
C16_CloseBracket ==
    [][(Running /\ InSegment /\ Cur = "]") =>
          LET q == code
          IN  IF CellAt(dataStart, data) = 0
              THEN error' = "RUNNING" /\ code' = q + 1
              ELSE IF OpenersOf(q) # {}
                   THEN /\ error' = "RUNNING"
                        /\ \E p \in OpenersOf(q) : p < q /\ code' = p + 1
                   ELSE error' = "E_CLOSE_BRACKET" /\ code' = q]_vars


(***************************************************************************)
(* C17: brackets as while loops.                                           *)
(***************************************************************************)
\* the brackets of the instruction buffer are properly nested: every
\* bracket has a partner
ProperlyNested ==
    \A p \in 0..(Len(codeStart) - 1) : codeStart[p + 1] \in {"[", "]"} => Paired(p)

\* this step completes an instruction and leaves the code pointer right
\* after a byte b
ArrivesAfter(b) ==
    /\ Running /\ error' = "RUNNING" /\ code' # code
    /\ code' \in 1..Len(codeStart)
    /\ codeStart[code'] = b

\* C17: in a run of a program with properly nested brackets, whenever a
\* step leaves the code pointer right after a '[' -- the '[' fell through,
\* or its matching ']' jumped back -- the cell under the data pointer is
\* not 0, and whenever a step leaves it right after a ']' -- the ']' fell
\* through, or its matching '[' jumped forward -- the cell is 0.
C17_WhileLoop ==
    [][(ProperlyNested /\ InSegment) =>
          /\ ArrivesAfter("[") =>
                /\ CellAt(dataStart', data') # 0
                /\ \/ Cur = "[" /\ code' = code + 1
                   \/ Cur = "]" /\ <<code' - 1, code>> \in JumpTable
          /\ ArrivesAfter("]") =>
                /\ CellAt(dataStart', data') = 0
                /\ \/ Cur = "]" /\ code' = code + 1
                   \/ Cur = "[" /\ <<code, code' - 1>> \in JumpTable]_vars

\* a ']' jumped back to the body of its loop, which is not the first
\* instruction of the buffer
C17_Witness ==
    /\ ProperlyNested /\ Running
    /\ prev.op = "]"
    /\ code >= 2 /\ codeStart[code] = "["
    /\ CellAt(dataStart, data) # 0


(***************************************************************************)
(* C18: what each instruction leaves alone.                                *)
(***************************************************************************)
\* every cell of the data segment but the one at offset k is unchanged
OtherCellsUnchanged(k) ==
    \A j \in (0..(dataSize - 1)) \ {k} : CellAt(dataStart', j) = CellAt(dataStart, j)

CellsInRange == \A k \in 0..(dataSize - 1) : CellAt(dataStart, k) \in INT8_MIN..INT8_MAX

\* C19: every cell holds a value in -128..127 in every reachable state,
\* and with wrap checking disabled a '+' on a cell that holds 127 succeeds
\* and leaves -128 in it, a '-' on a cell that holds -128 succeeds and
\* leaves 127 in it.
C19_WrapAround ==
    /\ []CellsInRange
    /\ [][(Running /\ InSegment /\ ~enableWrapCheck) =>
             /\ (Cur = "+" /\ CellAt(dataStart, data) = INT8_MAX) =>
                   error' = "RUNNING" /\ code' = code + 1 /\ CellAt(dataStart', data) = INT8_MIN
             /\ (Cur = "-" /\ CellAt(dataStart, data) = INT8_MIN) =>
                   error' = "RUNNING" /\ code' = code + 1 /\ CellAt(dataStart', data) = INT8_MAX]_vars

\* a '-' has run on a cell to which ',' had given -128, and left 127
C19_Witness ==
    /\ ~enableWrapCheck /\ Running /\ InSegment
    /\ code = 2 /\ codeStart = <<",", "-">>
    /\ prev.op = "-"
    /\ CellAt(prev.dataStart, data) = INT8_MIN
    /\ CellAt(dataStart, data) = INT8_MAX


(***************************************************************************)
(* C20: programs without ']'.                                              *)
(***************************************************************************)
NoCloseBracket == \A k \in 1..Len(codeStart) : codeStart[k] # "]"

====
